---- MODULE Spec2Model ----
(***************************************************************************)
(* Model of the ring buffer of src/ringbuffer.go.  The file holds two      *)
(* revisions of package ringbuffer: the current one (lines 1-533, with     *)
(* ReadUntilFunc, ReadBytes, Consume, ...) and the older one (lines        *)
(* 535-887, whose Write signals ErrTooManyDataToWrite).  The variable      *)
(* `variant` says which revision a behaviour runs.                         *)
(*                                                                         *)
(* A Buffer is the record [buf, size, r, w, isFull]; buf is a function on  *)
(* 0..size-1 so that index arithmetic reads as in the Go code.  Go slices  *)
(* passed in and out are sequences.                                        *)
(***************************************************************************)
EXTENDS Integers, Sequences, FiniteSets, TLC

\* ---------------------------------------------------------------- bounds
MaxCap == 3
MaxByte == 1
MaxSource == 5

Byte == 0..MaxByte
Sizes == 1..MaxCap

\* what a source stores into the span it is given: every length up to k,
\* filled with consecutive byte values from every starting value, so that
\* neighbouring bytes differ and a lost, repeated or reordered byte shows
Ramp(c, m) == [k \in 1..m |-> (c + k - 1) % (MaxByte + 1)]

Sources(k) == {Ramp(c, m) : c \in Byte, m \in 0..k}

\* the byte slices handed to Write: every byte sequence of length up to k
SeqsUpTo(k) == UNION {[1..m -> Byte] : m \in 0..k}

\* ---------------------------------------------------------------- errors
ErrNil == "nil"
ErrIsFull == "ErrIsFull"
ErrIsEmpty == "ErrIsEmpty"
ErrOutOfRange == "ErrOutOfRange"
ErrTooManyDataToWrite == "ErrTooManyDataToWrite"
EOF == "io.EOF"
ErrOther == "ErrOther"

\* run-time panics of the Go runtime, reported like the errors: a call that
\* panics has changed nothing when the panic comes before its first assignment
ErrIndexRange == "panic: index out of range"

ErrSliceBounds == "panic: slice bounds out of range"

ErrDivideByZero == "panic: integer divide by zero"

V0 == "v0"
Legacy == "legacy"

VARIABLES b, variant, pc, io, pre, ret, th

vars == <<b, variant, pc, io, pre, ret, th>>

\* ------------------------------------------------------- slice primitives
\* s[i:j] of a backing array
Slice(buf, i, j) == [k \in 1..(j - i) |-> buf[i + k - 1]]

Min(x, y) == IF x < y THEN x ELSE y

\* copy(dst[lo:hi], src): the first min(hi-lo, len(src)) elements of src
Copy(buf, lo, hi, src) ==
    LET m == Min(hi - lo, Len(src))
    IN  [k \in DOMAIN buf |-> IF k >= lo /\ k < lo + m THEN src[k - lo + 1] ELSE buf[k]]

DefaultSize == 4096

\* the zero value of Buffer
ZeroBuffer == [buf |-> <<>>, size |-> 0, r |-> 0, w |-> 0, isFull |-> FALSE]

\* ---------------------------------------------------- construction (v0)
WithSize(size) == [buf |-> [k \in 0..(size - 1) |-> 0], size |-> size,
                   r |-> 0, w |-> 0, isFull |-> FALSE]

WithBuffer(a) == [buf |-> [k \in 0..(Len(a) - 1) |-> a[k + 1]], size |-> Len(a),
                  r |-> 0, w |-> 0, isFull |-> FALSE]

LegacyNew(size) == [buf |-> [k \in 0..(size - 1) |-> 0], size |-> size,
                    r |-> 0, w |-> 0, isFull |-> FALSE]

\* an Option argument of New: WithSize(size), or WithBuffer(buf) with buf a
\* slice or nil
SizeOption(size) == [kind |-> "WithSize", size |-> size, buf |-> <<>>, isNil |-> FALSE]

BufferOption(a) == [kind |-> "WithBuffer", size |-> Len(a), buf |-> a, isNil |-> FALSE]

NilBufferOption == [kind |-> "WithBuffer", size |-> 0, buf |-> <<>>, isNil |-> TRUE]

ErrMakeSlice == "panic: makeslice: len out of range"

\* the options applied in order to the zero Buffer: each sets buf and size;
\* isNil tells whether b.buf is nil; make() with a negative length panics
RECURSIVE ApplyOptions(_, _)
ApplyOptions(c, opts) ==
    IF opts = <<>> THEN c
    ELSE LET opt == Head(opts)
         IN  IF opt.kind = "WithBuffer"
             THEN ApplyOptions([b |-> WithBuffer(opt.buf), isNil |-> opt.isNil, err |-> ErrNil],
                               Tail(opts))
             ELSE IF opt.size < 0 THEN [b |-> ZeroBuffer, isNil |-> TRUE, err |-> ErrMakeSlice]
             ELSE ApplyOptions([b |-> WithSize(opt.size), isNil |-> FALSE, err |-> ErrNil],
                               Tail(opts))

\* New(options...) of v0: a buffer whose buf is nil after the options gets
\* DefaultSize bytes.  New(size) of the legacy revision takes the size of its
\* one option.  No size is refused.
New(v, opts) ==
    IF v = Legacy THEN
        IF opts[1].size < 0 THEN [b |-> ZeroBuffer, err |-> ErrMakeSlice]
        ELSE [b |-> LegacyNew(opts[1].size), err |-> ErrNil]
    ELSE LET c == ApplyOptions([b |-> ZeroBuffer, isNil |-> TRUE, err |-> ErrNil], opts)
         IN  IF c.err # ErrNil THEN [b |-> ZeroBuffer, err |-> c.err]
             ELSE IF c.isNil THEN [b |-> WithSize(DefaultSize), err |-> ErrNil]
             ELSE [b |-> c.b, err |-> ErrNil]

\* the capacity the options ask for: the size the last one sets
Requested(opts) == IF opts = <<>> THEN DefaultSize ELSE opts[Len(opts)].size

\* -------------------------------------------------------------- queries
Length(x) ==
    IF x.w = x.r THEN (IF x.isFull THEN x.size ELSE 0)
    ELSE IF x.w > x.r THEN x.w - x.r
    ELSE x.size - x.r + x.w

Capacity(x) == x.size

FreeSwapped(x) ==
    IF x.w = x.r THEN (IF x.isFull THEN 0 ELSE x.size)
    ELSE IF x.w < x.r THEN x.size - x.w + x.r
    ELSE x.r - x.w

Free(x) ==
    IF x.w = x.r THEN (IF x.isFull THEN 0 ELSE x.size)
    ELSE IF x.w < x.r THEN x.r - x.w
    ELSE x.size - x.w + x.r

IsFull(x) == x.isFull

IsEmpty(x) == ~x.isFull /\ x.w = x.r

byteRange(x, i, j) ==
    IF i = j THEN
        IF x.isFull THEN Slice(x.buf, i, x.size) \o Slice(x.buf, 0, j)
        ELSE <<>>
    ELSE IF i < j THEN Slice(x.buf, i, j)
    ELSE Slice(x.buf, i, x.size) \o Slice(x.buf, 0, j)

Bytes(x) == byteRange(x, x.r, x.w)

LegacyBytes(x) ==
    IF x.w = x.r THEN
        IF x.isFull THEN Slice(x.buf, x.r, x.size) \o Slice(x.buf, 0, x.w)
        ELSE <<>>
    ELSE IF x.w > x.r THEN Slice(x.buf, x.r, x.w)
    ELSE LET n == x.size - x.r + x.w
         IN  IF x.r + n < x.size THEN Slice(x.buf, x.r, x.r + n)
             ELSE LET c1 == x.size - x.r
                      c2 == n - c1
                  IN  Slice(x.buf, x.r, x.size) \o Slice(x.buf, 0, c2)

ResetKeepFull(x) == [x EXCEPT !.r = 0, !.w = 0]

\* bytes.HasPrefix(s, prefix)
bytesHasPrefix(s, prefix) ==
    Len(s) >= Len(prefix) /\ SubSeq(s, 1, Len(prefix)) = prefix

Equal(x, p) ==
    LET bLen == Length(x)
        pLen == Len(p)
    IN  IF bLen # pLen THEN FALSE
        ELSE IF bLen = 0 THEN TRUE
        ELSE IF x.w > x.r THEN Slice(x.buf, x.r, x.w) = p
        ELSE LET c == x.size - x.r
             IN  IF Slice(x.buf, x.r, x.size) # SubSeq(p, 1, c) THEN FALSE
                 ELSE Slice(x.buf, 0, x.w) = SubSeq(p, c + 1, pLen)

HasPrefixFirstPart(x, prefix) ==
    LET bLen == Length(x)
        pLen == Len(prefix)
    IN  IF bLen < pLen THEN FALSE
        ELSE IF pLen = 0 THEN TRUE
        ELSE IF x.w > x.r THEN bytesHasPrefix(Slice(x.buf, x.r, x.w), prefix)
        ELSE LET c == Min(x.size - x.r, pLen)
             IN  Slice(x.buf, x.r, x.r + c) = SubSeq(prefix, 1, c)

HasPrefix(x, prefix) ==
    LET bLen == Length(x)
        pLen == Len(prefix)
    IN  IF bLen < pLen THEN FALSE
        ELSE IF pLen = 0 THEN TRUE
        ELSE IF x.w > x.r THEN bytesHasPrefix(Slice(x.buf, x.r, x.w), prefix)
        ELSE LET c == Min(x.size - x.r, pLen)
             IN  IF Slice(x.buf, x.r, x.r + c) # SubSeq(prefix, 1, c) THEN FALSE
                 ELSE IF c = pLen THEN TRUE
                 ELSE bytesHasPrefix(Slice(x.buf, 0, x.w), SubSeq(prefix, c + 1, pLen))

Reset(x) == [x EXCEPT !.r = 0, !.w = 0, !.isFull = FALSE]

\* ---------------------------------------------------------------- reads
\* a func(byte) bool argument: nil, or the predicate accepting the bytes of a set
Nil == [isNil |-> TRUE, accepts |-> {}]

Func(S) == [isNil |-> FALSE, accepts |-> S]

\* the scan loop of ReadUntilFunc
RECURSIVE ScanUntil(_, _, _, _)
ScanUntil(x, f, i, n) ==
    IF i >= n THEN [i |-> i, atDelim |-> FALSE]
    ELSE IF x.buf[(x.r + i) % x.size] \in f.accepts THEN [i |-> i + 1, atDelim |-> TRUE]
    ELSE ScanUntil(x, f, i + 1, n)

ReadUntilFuncKeepFull(x, plen, f) ==
    LET bLen == Length(x)
        n0 == IF bLen > plen THEN plen ELSE bLen
    IN  IF n0 = 0
        THEN [b |-> x, n |-> 0, atDelim |-> FALSE, err |-> EOF, p |-> <<>>]
        ELSE IF x.r < 0
        THEN [b |-> x, n |-> 0, atDelim |-> FALSE, p |-> <<>>,
              err |-> IF f.isNil THEN ErrSliceBounds ELSE ErrIndexRange]
        ELSE
          LET sc == IF ~f.isNil THEN ScanUntil(x, f, 0, n0)
                    ELSE [i |-> n0, atDelim |-> FALSE]
              err == IF ~f.isNil /\ sc.i = bLen /\ ~sc.atDelim THEN EOF ELSE ErrNil
              n == sc.i
              p == IF x.r + n <= x.size THEN Slice(x.buf, x.r, x.r + n)
                   ELSE Slice(x.buf, x.r, x.size) \o Slice(x.buf, 0, n - (x.size - x.r))
          IN  [b |-> [x EXCEPT !.r = (x.r + n) % x.size],
               n |-> n, atDelim |-> sc.atDelim, err |-> err, p |-> p]

ReadUntilFunc(x, plen, f) ==
    LET bLen == Length(x)
        n0 == IF bLen > plen THEN plen ELSE bLen
    IN  IF n0 = 0
        THEN [b |-> x, n |-> 0, atDelim |-> FALSE, err |-> EOF, p |-> <<>>]
        ELSE IF x.r < 0
        THEN [b |-> x, n |-> 0, atDelim |-> FALSE, p |-> <<>>,
              err |-> IF f.isNil THEN ErrSliceBounds ELSE ErrIndexRange]
        ELSE
          LET sc == IF ~f.isNil THEN ScanUntil(x, f, 0, n0)
                    ELSE [i |-> n0, atDelim |-> FALSE]
              err == IF ~f.isNil /\ sc.i = bLen /\ ~sc.atDelim THEN EOF ELSE ErrNil
              n == sc.i
              p == IF n > 0 THEN
                     IF x.r + n <= x.size THEN Slice(x.buf, x.r, x.r + n)
                     ELSE Slice(x.buf, x.r, x.size) \o Slice(x.buf, 0, n - (x.size - x.r))
                   ELSE <<>>
          IN  [b |-> IF n > 0
                     THEN [x EXCEPT !.r = (x.r + n) % x.size, !.isFull = FALSE]
                     ELSE x,
               n |-> n, atDelim |-> sc.atDelim, err |-> err, p |-> p]

Read(x, plen) ==
    LET res == ReadUntilFunc(x, plen, Nil)
    IN  [b |-> res.b, n |-> res.n, err |-> res.err, p |-> res.p]

LegacyRead(x, plen) ==
    IF plen = 0 THEN [b |-> x, n |-> 0, err |-> ErrNil, p |-> <<>>]
    ELSE IF x.w = x.r /\ ~x.isFull THEN [b |-> x, n |-> 0, err |-> ErrIsEmpty, p |-> <<>>]
    ELSE IF x.w > x.r THEN
        LET n == Min(x.w - x.r, plen)
        IN  [b |-> [x EXCEPT !.r = (x.r + n) % x.size],
             n |-> n, err |-> ErrNil, p |-> Slice(x.buf, x.r, x.r + n)]
    ELSE IF x.size = 0 THEN [b |-> x, n |-> 0, err |-> ErrDivideByZero, p |-> <<>>]
    ELSE
        LET n == Min(x.size - x.r + x.w, plen)
            p == IF x.r + n <= x.size THEN Slice(x.buf, x.r, x.r + n)
                 ELSE Slice(x.buf, x.r, x.size) \o Slice(x.buf, 0, n - (x.size - x.r))
        IN  [b |-> [x EXCEPT !.r = (x.r + n) % x.size, !.isFull = FALSE],
             n |-> n, err |-> ErrNil, p |-> p]

ReadByte(x) ==
    IF x.w = x.r /\ ~x.isFull THEN [b |-> x, c |-> 0, err |-> ErrIsEmpty]
    ELSE IF x.r \notin 0..(x.size - 1) THEN [b |-> x, c |-> 0, err |-> ErrIndexRange]
    ELSE LET r1 == x.r + 1
         IN  [b |-> [x EXCEPT !.r = IF r1 = x.size THEN 0 ELSE r1, !.isFull = FALSE],
              c |-> x.buf[x.r], err |-> ErrNil]

\* the scan loop of ReadBytes
RECURSIVE ReadBytesScan(_, _, _)
ReadBytesScan(x, delim, i) ==
    LET j == (x.r + i) % x.size
    IN  IF i > 0 /\ j = x.w THEN [i |-> i, j |-> j, err |-> EOF]
        ELSE IF x.buf[j] = delim THEN [i |-> i + 1, j |-> j + 1, err |-> ErrNil]
        ELSE ReadBytesScan(x, delim, i + 1)

ReadBytes(x, delim) ==
    IF x.w = x.r /\ ~x.isFull THEN [b |-> x, p |-> <<>>, err |-> ErrNil]
    ELSE IF x.size = 0 THEN [b |-> x, p |-> <<>>, err |-> ErrDivideByZero]
    ELSE IF x.r < 0 THEN [b |-> x, p |-> <<>>, err |-> ErrIndexRange]
    ELSE LET sc == ReadBytesScan(x, delim, 0)
             p == IF sc.j > x.r THEN Slice(x.buf, x.r, sc.j)
                  ELSE Slice(x.buf, x.r, x.size) \o Slice(x.buf, 0, sc.j)
         IN  [b |-> x, p |-> p, err |-> sc.err]

\* the scan loop of ReadBytesFunc
RECURSIVE ReadBytesFuncScan(_, _, _, _)
ReadBytesFuncScan(x, f, i, bLen) ==
    IF i >= bLen THEN [i |-> i, err |-> EOF]
    ELSE IF x.buf[(x.r + i) % x.size] \in f.accepts THEN [i |-> i + 1, err |-> ErrNil]
    ELSE ReadBytesFuncScan(x, f, i + 1, bLen)

ReadBytesFunc(x, f) ==
    IF Length(x) > 0 /\ x.r < 0 THEN [b |-> x, p |-> <<>>, err |-> ErrIndexRange]
    ELSE
      LET sc == ReadBytesFuncScan(x, f, 0, Length(x))
      IN  [b |-> x,
           p |-> IF sc.i > 0 THEN byteRange(x, x.r, (x.r + sc.i) % x.size) ELSE <<>>,
           err |-> sc.err]

\* Go's a % m for m > 0: the remainder takes the sign of the dividend
GoRem(a, m) == IF a >= 0 THEN a % m ELSE -((-a) % m)

ConsumeKeepFull(x, n) ==
    IF n = 0 THEN [b |-> x, err |-> ErrNil]
    ELSE IF n > Length(x) THEN [b |-> x, err |-> ErrOutOfRange]
    ELSE IF x.size = 0 THEN [b |-> x, err |-> ErrDivideByZero]
    ELSE [b |-> [x EXCEPT !.r = GoRem(x.r + n, x.size)], err |-> ErrNil]

\* a panic is reported as its error value and leaves the buffer as it was
Consume(x, n) ==
    IF n = 0 THEN [b |-> x, err |-> ErrNil]
    ELSE IF n > Length(x) THEN [b |-> x, err |-> ErrOutOfRange]
    ELSE IF x.size = 0 THEN [b |-> x, err |-> ErrDivideByZero]
    ELSE [b |-> [x EXCEPT !.r = GoRem(x.r + n, x.size), !.isFull = FALSE], err |-> ErrNil]

ErrInvalidSliceIndices == "ErrInvalidSliceIndices"

\* ByteRange(Start(start), End(end)); a panic is reported as its error value
ByteRange(x, start, end) ==
    LET bLen == Length(x)
        s1 == IF start < 0 THEN bLen - start ELSE start
        e1 == IF end < 0 THEN bLen - end ELSE end
    IN  IF start < 0 /\ s1 < 0 THEN [p |-> <<>>, err |-> ErrOutOfRange]
        ELSE IF s1 > bLen THEN [p |-> <<>>, err |-> ErrOutOfRange]
        ELSE IF end < 0 /\ e1 < 0 THEN [p |-> <<>>, err |-> ErrOutOfRange]
        ELSE IF e1 > bLen THEN [p |-> <<>>, err |-> ErrOutOfRange]
        ELSE IF e1 < s1 THEN [p |-> <<>>, err |-> ErrInvalidSliceIndices]
        ELSE IF s1 = e1 THEN [p |-> <<>>, err |-> ErrNil]
        ELSE [p |-> byteRange(x, (x.r + s1) % x.size, (x.r + e1) % x.size),
              err |-> ErrNil]

\* --------------------------------------------------------------- writes
WriteDropWrap(x, p) ==
    IF Len(p) = 0 THEN [b |-> x, n |-> 0, err |-> ErrNil]
    ELSE IF x.isFull THEN [b |-> x, n |-> 0, err |-> ErrIsFull]
    ELSE IF (IF x.w >= x.r THEN x.size - x.w + x.r ELSE x.r - x.w) < 0
    THEN [b |-> x, n |-> 0, err |-> ErrSliceBounds]
    ELSE IF x.size = 0 THEN [b |-> x, n |-> 0, err |-> ErrDivideByZero]
    ELSE
      LET avail == IF x.w >= x.r THEN x.size - x.w + x.r ELSE x.r - x.w
          n == IF avail > Len(p) THEN Len(p) ELSE avail
          err == IF avail > Len(p) THEN ErrNil
                 ELSE IF Len(p) > avail THEN ErrIsFull ELSE ErrNil
          buf1 == Copy(x.buf, x.w, x.size, SubSeq(p, 1, n))
          w1 == (x.w + n) % x.size
      IN  [b |-> [x EXCEPT !.buf = buf1, !.w = w1,
                           !.isFull = IF w1 = x.r THEN TRUE ELSE x.isFull],
           n |-> n, err |-> err]

WriteWrapFromStart(x, p) ==
    IF Len(p) = 0 THEN [b |-> x, n |-> 0, err |-> ErrNil]
    ELSE IF x.isFull THEN [b |-> x, n |-> 0, err |-> ErrIsFull]
    ELSE IF (IF x.w >= x.r THEN x.size - x.w + x.r ELSE x.r - x.w) < 0
    THEN [b |-> x, n |-> 0, err |-> ErrSliceBounds]
    ELSE IF x.size = 0 THEN [b |-> x, n |-> 0, err |-> ErrDivideByZero]
    ELSE
      LET avail == IF x.w >= x.r THEN x.size - x.w + x.r ELSE x.r - x.w
          n == IF avail > Len(p) THEN Len(p) ELSE avail
          err == IF avail > Len(p) THEN ErrNil
                 ELSE IF Len(p) > avail THEN ErrIsFull ELSE ErrNil
          buf1 == IF x.w >= x.r THEN
                    LET c1 == x.size - x.w
                    IN  IF c1 >= n THEN Copy(x.buf, x.w, x.size, SubSeq(p, 1, n))
                        ELSE Copy(Copy(x.buf, x.w, x.size, SubSeq(p, 1, c1)),
                                  0, n - c1, p)
                  ELSE Copy(x.buf, x.w, x.w + n, SubSeq(p, 1, n))
          w1 == (x.w + n) % x.size
      IN  [b |-> [x EXCEPT !.buf = buf1, !.w = w1,
                           !.isFull = IF w1 = x.r THEN TRUE ELSE x.isFull],
           n |-> n, err |-> err]

Write(x, p) ==
    IF Len(p) = 0 THEN [b |-> x, n |-> 0, err |-> ErrNil]
    ELSE IF x.isFull THEN [b |-> x, n |-> 0, err |-> ErrIsFull]
    ELSE IF (IF x.w >= x.r THEN x.size - x.w + x.r ELSE x.r - x.w) < 0
    THEN [b |-> x, n |-> 0, err |-> ErrSliceBounds]
    ELSE IF x.size = 0 THEN [b |-> x, n |-> 0, err |-> ErrDivideByZero]
    ELSE
      LET avail == IF x.w >= x.r THEN x.size - x.w + x.r ELSE x.r - x.w
          n == IF avail > Len(p) THEN Len(p) ELSE avail
          err == IF avail > Len(p) THEN ErrNil
                 ELSE IF Len(p) > avail THEN ErrIsFull ELSE ErrNil
          buf1 == IF x.w >= x.r THEN
                    LET c1 == x.size - x.w
                    IN  IF c1 >= n THEN Copy(x.buf, x.w, x.size, SubSeq(p, 1, n))
                        ELSE Copy(Copy(x.buf, x.w, x.size, SubSeq(p, 1, c1)),
                                  0, n - c1, SubSeq(p, c1 + 1, Len(p)))
                  ELSE Copy(x.buf, x.w, x.w + n, SubSeq(p, 1, n))
          w1 == (x.w + n) % x.size
      IN  [b |-> [x EXCEPT !.buf = buf1, !.w = w1,
                           !.isFull = IF w1 = x.r THEN TRUE ELSE x.isFull],
           n |-> n, err |-> err]

LegacyWriteNoWrap(x, p0) ==
    IF Len(p0) = 0 THEN [b |-> x, n |-> 0, err |-> ErrNil]
    ELSE IF x.isFull THEN [b |-> x, n |-> 0, err |-> ErrIsFull]
    ELSE
      LET avail == IF x.w >= x.r THEN x.size - x.w + x.r ELSE x.r - x.w
          err == IF Len(p0) > avail THEN ErrTooManyDataToWrite ELSE ErrNil
          p == IF Len(p0) > avail THEN SubSeq(p0, 1, avail) ELSE p0
          n == IF x.w >= x.r THEN Min(Len(p), x.size - x.w) ELSE Len(p)
          buf1 == Copy(x.buf, x.w, x.size, p)
          w2 == IF x.w + n = x.size THEN 0 ELSE x.w + n
      IN  [b |-> [x EXCEPT !.buf = buf1, !.w = w2,
                           !.isFull = IF w2 = x.r THEN TRUE ELSE x.isFull],
           n |-> n, err |-> err]

LegacyWrite(x, p0) ==
    IF Len(p0) = 0 THEN [b |-> x, n |-> 0, err |-> ErrNil]
    ELSE IF x.isFull THEN [b |-> x, n |-> 0, err |-> ErrIsFull]
    ELSE
      LET avail == IF x.w >= x.r THEN x.size - x.w + x.r ELSE x.r - x.w
          err == IF Len(p0) > avail THEN ErrTooManyDataToWrite ELSE ErrNil
          p == IF Len(p0) > avail THEN SubSeq(p0, 1, avail) ELSE p0
          n == Len(p)
          c1 == x.size - x.w
          buf1 == IF x.w >= x.r THEN
                    IF c1 >= n THEN Copy(x.buf, x.w, x.size, p)
                    ELSE Copy(Copy(x.buf, x.w, x.size, SubSeq(p, 1, c1)),
                              0, x.size, SubSeq(p, c1 + 1, Len(p)))
                  ELSE Copy(x.buf, x.w, x.size, p)
          w1 == IF x.w >= x.r THEN (IF c1 >= n THEN x.w + n ELSE n - c1)
                ELSE x.w + n
          w2 == IF w1 = x.size THEN 0 ELSE w1
      IN  [b |-> [x EXCEPT !.buf = buf1, !.w = w2,
                           !.isFull = IF w2 = x.r THEN TRUE ELSE x.isFull],
           n |-> n, err |-> err]

writeByte(x, c) ==
    IF x.w = x.r /\ x.isFull THEN [b |-> x, err |-> ErrIsFull]
    ELSE IF x.w \notin 0..(x.size - 1) THEN [b |-> x, err |-> ErrIndexRange]
    ELSE LET w1 == x.w + 1
             w2 == IF w1 = x.size THEN 0 ELSE w1
         IN  [b |-> [x EXCEPT !.buf = [x.buf EXCEPT ![x.w] = c], !.w = w2,
                              !.isFull = IF w2 = x.r THEN TRUE ELSE x.isFull],
              err |-> ErrNil]

\* writeByte: the statement if b.w == b.size { b.w = 0 }
writeByteNoWrap(x) == x

writeByteWrap(x) == [x EXCEPT !.w = IF x.w = x.size THEN 0 ELSE x.w]

WriteByte(x, c) == writeByte(x, c)

\* ------------------------------------------------ bulk stream transfer
\* ReadFrom: the guard before the loop
ReadFromEnter(x) == x.isFull

\* ReadFrom: length of the span b.buf[b.w:c] handed to the source
ReadFromSpan(x) == (IF x.w >= x.r THEN x.size ELSE x.r) - x.w

\* ReadFrom: one iteration, the source having stored `data` and returned (len(data), err)
ReadFromIter(x, n, data, err) ==
    LET c == IF x.w >= x.r THEN x.size ELSE x.r
        i == Len(data)
        buf1 == Copy(x.buf, x.w, c, data)
        w1 == (x.w + i) % x.size
        n1 == n + i
    IN  IF x.size = 0 THEN [b |-> x, n |-> n, err |-> ErrDivideByZero, done |-> TRUE]
        ELSE IF err # ErrNil
        THEN [b |-> [x EXCEPT !.buf = buf1, !.w = w1], n |-> n1,
              err |-> IF err = EOF /\ n1 > 0 THEN ErrNil ELSE err, done |-> TRUE]
        ELSE IF i > 0 /\ w1 = x.r
        THEN [b |-> [x EXCEPT !.buf = buf1, !.w = w1, !.isFull = TRUE], n |-> n1,
              err |-> ErrNil, done |-> TRUE]
        ELSE [b |-> [x EXCEPT !.buf = buf1, !.w = w1], n |-> n1,
              err |-> ErrNil, done |-> FALSE]

\* WriteTo: the guard before the loop
WriteToEnter(x) == x.w = x.r /\ ~x.isFull

\* WriteTo: the span b.buf[b.r:c] handed to the sink
WriteToSpan(x) == Slice(x.buf, x.r, IF x.w > x.r THEN x.r ELSE x.size)

\* WriteTo: one iteration, the sink having returned (i, err)
WriteToIter(x, n, i, err) ==
    LET r1 == (x.r + i) % x.size
        n1 == n + i
    IN  IF x.r < 0 THEN [b |-> x, n |-> n, err |-> ErrSliceBounds, done |-> TRUE]
        ELSE IF x.size = 0 THEN [b |-> x, n |-> n, err |-> ErrDivideByZero, done |-> TRUE]
        ELSE IF err # ErrNil
        THEN [b |-> [x EXCEPT !.r = r1], n |-> n1, err |-> err, done |-> TRUE]
        ELSE [b |-> [x EXCEPT !.r = r1,
                              !.isFull = IF i > 0 /\ x.isFull THEN FALSE ELSE x.isFull],
              n |-> n1, err |-> ErrNil, done |-> x.w = r1]

\* ------------------------------------------------------- the state machine
\* the record of the call that has just returned (pc = "done"): its arguments
\* and its results; `pre` is the buffer as it was when the call was made
NoRet == [op |-> "none", src |-> <<>>, k |-> 0, n |-> 0, err |-> ErrNil,
          data |-> <<>>, atDelim |-> FALSE, cerr |-> ErrNil, good |-> FALSE,
          k2 |-> 0, prev |-> <<>>]

\* the locals of a running ReadFrom / WriteTo: the count so far, the bytes
\* moved so far, the kind of sink, and the parity of the number of calls made
\* to the source or sink (so that an iteration that moves nothing is still a
\* step)
NoIO == [n |-> 0, moved |-> <<>>, good |-> FALSE, calls |-> 0]

\* two goroutines that share the buffer without a lock: a producer in
\* WriteByte and a consumer in ReadByte.  wpc and rpc are their positions, wc
\* the next byte of the producer's stream 0, 1, .., MaxByte, 0, .. (it offers
\* a byte again until WriteByte accepts it), wr the value of b.r the producer
\* read last, werr and rerr the errors of their last calls, rc the byte the
\* consumer read.
\* raced records that a call ran while a call of the other goroutine was in
\* progress; held counts the bytes accepted and not yet handed out as long as
\* no calls have overlapped (afterwards it is kept at 0).
NoThreads == [wpc |-> "idle", rpc |-> "idle", wc |-> 0, wr |-> 0, rc |-> 0,
              werr |-> ErrNil, rerr |-> ErrNil, held |-> 0, raced |-> FALSE]

Init ==
    /\ variant \in {V0, Legacy}
    /\ \E size \in Sizes :
          IF variant = V0
          THEN b \in {WithSize(size)} \cup {WithBuffer(a) : a \in [1..size -> Byte]}
          ELSE b = LegacyNew(size)
    /\ pc = "idle"
    /\ io = NoIO
    /\ pre = b
    /\ ret = NoRet
    /\ th = NoThreads

WriteCall ==
    /\ pc = "idle"
    /\ \E p \in SeqsUpTo(b.size + 1) :
          LET res == IF variant = V0 THEN Write(b, p) ELSE LegacyWrite(b, p)
          IN  /\ b' = res.b
              /\ ret' = [NoRet EXCEPT !.op = "Write", !.src = p, !.n = res.n, !.err = res.err]
    /\ pre' = b
    /\ pc' = "done"
    /\ UNCHANGED <<variant, th, io>>

WriteByteCall ==
    /\ pc = "idle"
    /\ \E c \in Byte :
          LET res == WriteByte(b, c)
          IN  /\ b' = res.b
              /\ ret' = [NoRet EXCEPT !.op = "WriteByte", !.k = c, !.err = res.err]
    /\ pre' = b
    /\ pc' = "done"
    /\ UNCHANGED <<variant, th, io>>

ReadCall ==
    /\ pc = "idle"
    /\ \E plen \in 0..(b.size + 1) :
          LET res == IF variant = V0 THEN Read(b, plen) ELSE LegacyRead(b, plen)
          IN  /\ b' = res.b
              /\ ret' = [NoRet EXCEPT !.op = "Read", !.k = plen, !.n = res.n,
                                      !.err = res.err, !.data = res.p]
    /\ pre' = b
    /\ pc' = "done"
    /\ UNCHANGED <<variant, th, io>>

ReadByteCall ==
    /\ pc = "idle"
    /\ LET res == ReadByte(b)
       IN  /\ b' = res.b
           /\ ret' = [NoRet EXCEPT !.op = "ReadByte", !.k = res.c, !.err = res.err]
    /\ pre' = b
    /\ pc' = "done"
    /\ UNCHANGED <<variant, th, io>>

ReadUntilFuncCall ==
    /\ pc = "idle"
    /\ variant = V0
    /\ \E plen \in 0..(b.size + 1), d \in Byte :
          LET res == ReadUntilFunc(b, plen, Func({d}))
          IN  /\ b' = res.b
              /\ ret' = [NoRet EXCEPT !.op = "ReadUntilFunc", !.k = plen, !.src = <<d>>,
                                      !.n = res.n, !.err = res.err, !.data = res.p,
                                      !.atDelim = res.atDelim]
    /\ pre' = b
    /\ pc' = "done"
    /\ UNCHANGED <<variant, th, io>>

ReadBytesCall ==
    /\ pc = "idle"
    /\ variant = V0
    /\ \E d \in Byte :
          LET res == ReadBytes(b, d)
          IN  /\ b' = res.b
              /\ ret' = [NoRet EXCEPT !.op = "ReadBytes", !.k = d, !.n = Len(res.p),
                                      !.err = res.err, !.data = res.p]
    /\ pre' = b
    /\ pc' = "done"
    /\ UNCHANGED <<variant, th, io>>

ReadBytesFuncCall ==
    /\ pc = "idle"
    /\ variant = V0
    /\ \E d \in Byte :
          LET res == ReadBytesFunc(b, Func({d}))
          IN  /\ b' = res.b
              /\ ret' = [NoRet EXCEPT !.op = "ReadBytesFunc", !.k = d, !.n = Len(res.p),
                                      !.err = res.err, !.data = res.p]
    /\ pre' = b
    /\ pc' = "done"
    /\ UNCHANGED <<variant, th, io>>

ConsumeCall ==
    /\ pc = "idle"
    /\ variant = V0
    /\ \E n \in 0..(b.size + 1) :
          LET res == Consume(b, n)
          IN  /\ b' = res.b
              /\ ret' = [NoRet EXCEPT !.op = "Consume", !.k = n, !.err = res.err]
    /\ pre' = b
    /\ pc' = "done"
    /\ UNCHANGED <<variant, th, io>>

ResetCall ==
    /\ pc = "idle"
    /\ b' = Reset(b)
    /\ ret' = [NoRet EXCEPT !.op = "Reset"]
    /\ pre' = b
    /\ pc' = "done"
    /\ UNCHANGED <<variant, th, io>>

ReadFromCall ==
    /\ pc = "idle"
    /\ pre' = b
    /\ IF ReadFromEnter(b)
       THEN /\ ret' = [NoRet EXCEPT !.op = "ReadFrom", !.err = ErrIsFull]
            /\ pc' = "done"
            /\ UNCHANGED io
       ELSE /\ pc' = "ReadFrom"
            /\ io' = NoIO
            /\ ret' = NoRet
    /\ UNCHANGED <<b, variant, th>>

\* one call of the source and the rest of the loop body.  The exploration
\* follows a call until the source has delivered MaxSource bytes; only a
\* ReadFrom on a buffer whose b.r is negative takes more than Capacity().
ReadFromStep ==
    /\ pc = "ReadFrom"
    /\ \E data \in Sources(ReadFromSpan(b)), err \in {ErrNil, EOF, ErrOther} :
          LET res == ReadFromIter(b, io.n, data, err)
          IN  /\ Len(io.moved) + Len(data) <= MaxSource
              /\ b' = res.b
              /\ IF res.done
                 THEN /\ pc' = "done"
                      /\ io' = NoIO
                      /\ ret' = [NoRet EXCEPT !.op = "ReadFrom", !.n = res.n,
                                              !.err = res.err, !.cerr = err,
                                              !.data = io.moved \o data]
                 ELSE /\ io' = [io EXCEPT !.n = res.n, !.moved = io.moved \o data,
                                           !.calls = 1 - io.calls]
                      /\ UNCHANGED <<pc, ret>>
    /\ UNCHANGED <<variant, th, pre>>

WriteToCall ==
    /\ pc = "idle"
    /\ pre' = b
    /\ IF WriteToEnter(b)
       THEN /\ \E good \in BOOLEAN : ret' = [NoRet EXCEPT !.op = "WriteTo", !.good = good]
            /\ pc' = "done"
            /\ UNCHANGED io
       ELSE /\ pc' = "WriteTo"
            /\ \E good \in BOOLEAN : io' = [NoIO EXCEPT !.good = good]
            /\ ret' = NoRet
    /\ UNCHANGED <<b, variant, th>>

\* one call of the sink and the rest of the loop body; a good sink accepts
\* the whole span and returns no error; with b.r negative the slice
\* expression panics and the sink is not called
WriteToStep ==
    /\ pc = "WriteTo"
    /\ LET span == WriteToSpan(b)
       IN  \E i \in 0..Len(span), err \in {ErrNil, ErrOther} :
             /\ io.good => (i = Len(span) /\ err = ErrNil)
             /\ b.r < 0 => (i = 0 /\ err = ErrNil)
             /\ LET res == WriteToIter(b, io.n, i, err)
                    moved == io.moved \o SubSeq(span, 1, i)
                IN  /\ b' = res.b
                    /\ IF res.done
                       THEN /\ pc' = "done"
                            /\ io' = NoIO
                            /\ ret' = [NoRet EXCEPT !.op = "WriteTo", !.n = res.n,
                                                    !.err = res.err, !.cerr = err,
                                                    !.data = moved, !.good = io.good]
                       ELSE /\ io' = [io EXCEPT !.n = res.n, !.moved = moved,
                                                 !.calls = 1 - io.calls]
                            /\ UNCHANGED <<pc, ret>>
    /\ UNCHANGED <<variant, th, pre>>

\* ByteRange with both options given; End absent is end = Length()
ByteRangeCall ==
    /\ pc = "idle"
    /\ variant = V0
    /\ \E start \in -(b.size + 1)..(b.size + 1), end \in -(b.size + 1)..(b.size + 1) :
          LET res == ByteRange(b, start, end)
          IN  ret' = [NoRet EXCEPT !.op = "ByteRange", !.k = start, !.k2 = end,
                                   !.n = Len(res.p), !.err = res.err, !.data = res.p]
    /\ pre' = b
    /\ pc' = "done"
    /\ UNCHANGED <<b, variant, th, io>>

EqualCall ==
    /\ pc = "idle"
    /\ variant = V0
    /\ \E p \in SeqsUpTo(b.size + 1) :
          ret' = [NoRet EXCEPT !.op = "Equal", !.src = p, !.good = Equal(b, p)]
    /\ pre' = b
    /\ pc' = "done"
    /\ UNCHANGED <<b, variant, th, io>>

HasPrefixCall ==
    /\ pc = "idle"
    /\ variant = V0
    /\ \E p \in SeqsUpTo(b.size + 1) :
          ret' = [NoRet EXCEPT !.op = "HasPrefix", !.src = p, !.good = HasPrefix(b, p)]
    /\ pre' = b
    /\ pc' = "done"
    /\ UNCHANGED <<b, variant, th, io>>

\* the caller has looked at the results: the record of the call is dropped
Return ==
    /\ pc = "done"
    /\ pc' = "idle"
    /\ pre' = b
    /\ ret' = NoRet
    /\ UNCHANGED <<b, variant, th, io>>

\* the operations that touch only the buffer
CoreNext ==
    \/ WriteCall
    \/ WriteByteCall
    \/ ReadCall
    \/ ReadByteCall
    \/ ReadUntilFuncCall
    \/ ReadBytesCall
    \/ ReadBytesFuncCall
    \/ ConsumeCall
    \/ ResetCall
    \/ Return

CoreSpec == Init /\ [][CoreNext]_vars

Next ==
    \/ WriteCall
    \/ WriteByteCall
    \/ ReadCall
    \/ ReadByteCall
    \/ ReadUntilFuncCall
    \/ ReadBytesCall
    \/ ReadBytesFuncCall
    \/ ConsumeCall
    \/ ResetCall
    \/ ReadFromCall
    \/ ReadFromStep
    \/ WriteToCall
    \/ WriteToStep
    \/ Return

Spec == Init /\ [][Next]_vars

\* the loops of ReadFrom and WriteTo run to their return once entered
FairSpec == Spec /\ WF_vars(WriteToStep) /\ WF_vars(ReadFromStep)

\* writes, reads and Reset alone
ResetNext ==
    \/ WriteCall
    \/ WriteByteCall
    \/ ReadCall
    \/ ReadByteCall
    \/ ResetCall
    \/ Return

ResetSpec == Init /\ [][ResetNext]_vars

\* the buffer-only operations together with the range query
QueryNext ==
    \/ CoreNext
    \/ ByteRangeCall

QuerySpec == Init /\ [][QueryNext]_vars

\* the buffer-only operations together with the comparisons
CompareNext ==
    \/ CoreNext
    \/ EqualCall
    \/ HasPrefixCall

CompareSpec == Init /\ [][CompareNext]_vars

\* Construction as a step: before New there is no buffer.  The sizes asked
\* for include zero and a negative one.
ConstructInit ==
    /\ variant \in {V0, Legacy}
    /\ b = ZeroBuffer
    /\ pc = "new"
    /\ io = NoIO
    /\ pre = ZeroBuffer
    /\ ret = NoRet
    /\ th = NoThreads

NewCall ==
    /\ pc = "new"
    /\ \E opts \in IF variant = V0
                    THEN LET O == {SizeOption(n) : n \in -1..MaxCap}
                                  \cup {BufferOption(a) : a \in SeqsUpTo(MaxCap)}
                                  \cup {NilBufferOption}
                         IN  {<<>>} \cup {<<o>> : o \in O} \cup {<<o1, o2>> : o1 \in O, o2 \in O}
                    ELSE {<<SizeOption(n)>> : n \in -1..MaxCap} :
          LET res == New(variant, opts)
          IN  /\ b' = res.b
              /\ pre' = res.b
              /\ ret' = [NoRet EXCEPT !.op = "New", !.k = Requested(opts), !.err = res.err]
              /\ pc' = IF res.err = ErrNil THEN "done" ELSE "failed"
    /\ UNCHANGED <<variant, th, io>>

\* the buffer-only operations run on every constructed buffer of the
\* explored sizes, capacity 0 included
ConstructNext ==
    \/ NewCall
    \/ Return
    \/ (b.size <= MaxCap /\ CoreNext)

ConstructSpec == ConstructInit /\ [][ConstructNext]_vars

\* Consume takes an int: the negative arguments.  They can leave b.r
\* negative; the operations that index with b.r then panic, the others go on.
ConsumeNegativeCall ==
    /\ pc = "idle"
    /\ variant = V0
    /\ \E n \in -(b.size + 1)..-1 :
          LET res == Consume(b, n)
          IN  /\ b' = res.b
              /\ ret' = [NoRet EXCEPT !.op = "Consume", !.k = n, !.err = res.err]
    /\ pre' = b
    /\ pc' = "done"
    /\ UNCHANGED <<variant, th, io>>

\* both cursors are indices of b.buf
CursorsIndexArray(x) == x.r \in 0..(x.size - 1) /\ x.w \in 0..(x.size - 1)

AnyArgNext ==
    \/ ConsumeNegativeCall
    \/ Next

AnyArgSpec == Init /\ [][AnyArgNext]_vars

\* WriteByte and ReadByte as two goroutines see them: one step per statement
\* that reads or writes b.r, b.w, b.isFull or b.buf.  Only the producer
\* writes b.w and only the consumer writes b.r; both write b.isFull.
\* writeByte: if b.w == b.r && b.isFull { return ErrIsFull }
\* the bookkeeping of raced and held after a step of one goroutine, `overlap`
\* telling whether the other one is inside a call
Track(t, overlap) ==
    IF t.raced \/ overlap THEN [t EXCEPT !.raced = TRUE, !.held = 0] ELSE t

WriteByteEnter ==
    /\ th.wpc = "idle"
    /\ th' = Track([th EXCEPT !.wpc = "cmp", !.werr = ErrNil],
                   th.rpc # "idle")
    /\ UNCHANGED <<b, variant, pc, io, pre, ret>>

WriteByteCompare ==
    /\ th.wpc = "cmp"
    /\ th' = Track([th EXCEPT !.wpc = IF b.w = b.r THEN "isFull" ELSE "store", !.wr = b.r],
                   th.rpc # "idle")
    /\ UNCHANGED <<b, variant, pc, io, pre, ret>>

WriteByteCheckFull ==
    /\ th.wpc = "isFull"
    /\ th' = Track(IF b.isFull
                   THEN [th EXCEPT !.wpc = "idle", !.werr = ErrIsFull, !.wr = 0]
                   ELSE [th EXCEPT !.wpc = "store"],
                   th.rpc # "idle")
    /\ UNCHANGED <<b, variant, pc, io, pre, ret>>

\* b.buf[b.w] = c
WriteByteStore ==
    /\ th.wpc = "store"
    /\ b' = [b EXCEPT !.buf = [b.buf EXCEPT ![b.w] = th.wc]]
    /\ th' = Track([th EXCEPT !.wpc = "inc"],
                   th.rpc # "idle")
    /\ UNCHANGED <<variant, pc, io, pre, ret>>

\* b.w++
WriteByteInc ==
    /\ th.wpc = "inc"
    /\ b' = [b EXCEPT !.w = b.w + 1]
    /\ th' = Track([th EXCEPT !.wpc = "wrap"],
                   th.rpc # "idle")
    /\ UNCHANGED <<variant, pc, io, pre, ret>>

\* if b.w == b.size { b.w = 0 }
WriteByteWrap ==
    /\ th.wpc = "wrap"
    /\ b' = writeByteWrap(b)
    /\ th' = Track([th EXCEPT !.wpc = "meet"],
                   th.rpc # "idle")
    /\ UNCHANGED <<variant, pc, io, pre, ret>>

\* if b.w == b.r: nothing orders this read of b.r after the consumer's
\* writes, so it yields the present b.r or the value read by the first
\* comparison
WriteByteMeet ==
    /\ th.wpc = "meet"
    /\ \E r \in {b.r, th.wr} :
          th' = Track(IF b.w = r
                      THEN [th EXCEPT !.wpc = "setFull"]
                      ELSE [th EXCEPT !.wpc = "idle", !.werr = ErrNil, !.wr = 0,
                                      !.wc = (@ + 1) % (MaxByte + 1),
                                      !.held = @ + 1],
                      th.rpc # "idle")
    /\ UNCHANGED <<b, variant, pc, io, pre, ret>>

\* b.isFull = true; return nil
WriteByteSetFull ==
    /\ th.wpc = "setFull"
    /\ b' = [b EXCEPT !.isFull = TRUE]
    /\ th' = Track([th EXCEPT !.wpc = "idle", !.werr = ErrNil, !.wr = 0,
                              !.wc = (@ + 1) % (MaxByte + 1),
                              !.held = @ + 1],
                   th.rpc # "idle")
    /\ UNCHANGED <<variant, pc, io, pre, ret>>

\* ReadByte: if b.w == b.r && !b.isFull { return 0, ErrIsEmpty }
ReadByteEnter ==
    /\ th.rpc = "idle"
    /\ th' = Track([th EXCEPT !.rpc = "cmp", !.rc = 0, !.rerr = ErrNil],
                   th.wpc # "idle")
    /\ UNCHANGED <<b, variant, pc, io, pre, ret>>

ReadByteCompare ==
    /\ th.rpc = "cmp"
    /\ th' = Track([th EXCEPT !.rpc = IF b.w = b.r THEN "isFull" ELSE "load"],
                   th.wpc # "idle")
    /\ UNCHANGED <<b, variant, pc, io, pre, ret>>

ReadByteCheckFull ==
    /\ th.rpc = "isFull"
    /\ th' = Track(IF ~b.isFull
                   THEN [th EXCEPT !.rpc = "idle", !.rerr = ErrIsEmpty]
                   ELSE [th EXCEPT !.rpc = "load"],
                   th.wpc # "idle")
    /\ UNCHANGED <<b, variant, pc, io, pre, ret>>

\* c = b.buf[b.r]
ReadByteLoad ==
    /\ th.rpc = "load"
    /\ th' = Track([th EXCEPT !.rpc = "inc", !.rc = b.buf[b.r]],
                   th.wpc # "idle")
    /\ UNCHANGED <<b, variant, pc, io, pre, ret>>

\* b.r++
ReadByteInc ==
    /\ th.rpc = "inc"
    /\ b' = [b EXCEPT !.r = b.r + 1]
    /\ th' = Track([th EXCEPT !.rpc = "wrap"],
                   th.wpc # "idle")
    /\ UNCHANGED <<variant, pc, io, pre, ret>>

\* if b.r == b.size { b.r = 0 }
ReadByteWrap ==
    /\ th.rpc = "wrap"
    /\ b' = [b EXCEPT !.r = IF b.r = b.size THEN 0 ELSE b.r]
    /\ th' = Track([th EXCEPT !.rpc = "clear"],
                   th.wpc # "idle")
    /\ UNCHANGED <<variant, pc, io, pre, ret>>

\* b.isFull = false; return c, err
ReadByteClearFull ==
    /\ th.rpc = "clear"
    /\ b' = [b EXCEPT !.isFull = FALSE]
    /\ th' = Track([th EXCEPT !.rpc = "idle", !.rerr = ErrNil, !.held = @ - 1],
                   th.wpc # "idle")
    /\ UNCHANGED <<variant, pc, io, pre, ret>>

UnsyncNext ==
    \/ WriteByteEnter
    \/ WriteByteCompare
    \/ WriteByteCheckFull
    \/ WriteByteStore
    \/ WriteByteInc
    \/ WriteByteWrap
    \/ WriteByteMeet
    \/ WriteByteSetFull
    \/ ReadByteEnter
    \/ ReadByteCompare
    \/ ReadByteCheckFull
    \/ ReadByteLoad
    \/ ReadByteInc
    \/ ReadByteWrap
    \/ ReadByteClearFull

UnsyncSpec == Init /\ [][UnsyncNext]_vars

\* The wraparound scenario on a new buffer of capacity C >= 2: Write of C-1
\* bytes, Consume(C-2), Write of C-1 bytes.  ret.prev keeps the bytes of the
\* first Write.
WrapWriteFirst ==
    /\ pc = "idle"
    /\ variant = V0
    /\ b.size >= 2
    /\ \E p \in [1..(b.size - 1) -> Byte] :
          LET res == Write(b, p)
          IN  /\ b' = res.b
              /\ ret' = [NoRet EXCEPT !.op = "Write", !.src = p, !.n = res.n, !.err = res.err]
    /\ pre' = b
    /\ pc' = "wrap1"
    /\ UNCHANGED <<variant, th, io>>

WrapConsume ==
    /\ pc = "wrap1"
    /\ LET res == Consume(b, b.size - 2)
       IN  /\ b' = res.b
           /\ ret' = [NoRet EXCEPT !.op = "Consume", !.k = b.size - 2, !.err = res.err,
                                   !.prev = ret.src]
    /\ pre' = b
    /\ pc' = "wrap2"
    /\ UNCHANGED <<variant, th, io>>

WrapWriteSecond ==
    /\ pc = "wrap2"
    /\ \E p \in [1..(b.size - 1) -> Byte] :
          LET res == Write(b, p)
          IN  /\ b' = res.b
              /\ ret' = [NoRet EXCEPT !.op = "Write", !.src = p, !.n = res.n, !.err = res.err,
                                      !.prev = ret.prev]
    /\ pre' = b
    /\ pc' = "wrapped"
    /\ UNCHANGED <<variant, th, io>>

WrapNext ==
    \/ WrapWriteFirst
    \/ WrapConsume
    \/ WrapWriteSecond

WrapSpec == Init /\ [][WrapNext]_vars

\* ------------------------------------------------------------ properties
\* the occupied bytes in FIFO order, as the revision's own Bytes() reports them
Contents(v, x) == IF v = V0 THEN Bytes(x) ELSE LegacyBytes(x)

Done(op) == pc = "done" /\ ret.op = op

\* position (1-based) of the first occurrence of d in s, 0 when absent
FirstIndex(s, d) ==
    IF \E k \in 1..Len(s) : s[k] = d
    THEN CHOOSE k \in 1..Len(s) : s[k] = d /\ \A m \in 1..(k - 1) : s[m] # d
    ELSE 0

\* C1: Write and Read make the buffer a bounded FIFO byte queue.  A Write
\* appends exactly the first min(len(src), Free()) bytes of src behind the
\* unread bytes; a Read returns and removes exactly the first
\* min(len(dest), Length()) unread bytes, in the order written, at every
\* wraparound position; Length() is the number of unread bytes.
C1_BoundedFIFO ==
    /\ Length(b) = Len(Contents(variant, b))
    /\ Done("Write") =>
          LET m == Min(Len(ret.src), Free(pre))
          IN  /\ ret.n = m
              /\ Contents(variant, b) = Contents(variant, pre) \o SubSeq(ret.src, 1, m)
    /\ Done("Read") =>
          LET q == Contents(variant, pre)
              m == Min(ret.k, Length(pre))
          IN  /\ ret.n = m
              /\ ret.data = SubSeq(q, 1, m)
              /\ Contents(variant, b) = SubSeq(q, m + 1, Len(q))

\* a Read that crossed the end of the array and returned two different bytes
C1_Witness ==
    /\ Done("Read")
    /\ pre.r + ret.n > pre.size
    /\ ret.n >= 2
    /\ ret.data[1] # ret.data[2]
    /\ Len(Contents(variant, b)) >= 1

\* C2: DrainTo on a non-empty buffer with a sink that accepts every span in
\* full and never fails returns; on return the buffer is empty, the count is
\* Length() before the call, and the sink got the unread bytes in FIFO order.
C2_DrainToReturnsEmpty ==
    /\ [](Done("WriteTo") /\ ret.good /\ ~IsEmpty(pre) =>
            /\ IsEmpty(b)
            /\ Length(b) = 0
            /\ ret.err = ErrNil
            /\ ret.n = Length(pre)
            /\ ret.data = Contents(variant, pre))
    /\ ((pc = "WriteTo" /\ io.good) ~> (pc = "done"))

\* C3: with the delimiter among the unread bytes, ReadBytes returns the bytes
\* up to and including its first occurrence and advances the read position
\* past them; with unread bytes but no delimiter it returns them all with
\* io.EOF.
C3_ReadBytesSegments ==
    Done("ReadBytes") /\ ~IsEmpty(pre) =>
        LET q == Contents(variant, pre)
            at == FirstIndex(q, ret.k)
        IN  IF at > 0
            THEN /\ ret.data = SubSeq(q, 1, at)
                 /\ ret.err = ErrNil
                 /\ Contents(variant, b) = SubSeq(q, at + 1, Len(q))
            ELSE /\ ret.data = q
                 /\ ret.err = EOF

\* C4: when ReadFrom returns n, Length() has grown by n, the n bytes the
\* source delivered follow the bytes that were unread before, and none of
\* those was overwritten.
C4_FillFromAppends ==
    Done("ReadFrom") =>
        /\ Len(ret.data) = ret.n
        /\ Length(b) = Length(pre) + ret.n
        /\ Contents(variant, b) = Contents(variant, pre) \o ret.data

\* C5: IsFull() is Length() = Capacity(), IsEmpty() is Length() = 0, never
\* both; Capacity() bytes written into an empty buffer make it full, and
\* reading them all makes it empty, with readPos = writePos both times.
C5_FullEmptyDisambiguation ==
    /\ IsFull(b) <=> Length(b) = Capacity(b)
    /\ IsEmpty(b) <=> Length(b) = 0
    /\ ~(IsFull(b) /\ IsEmpty(b))
    /\ Done("Write") /\ IsEmpty(pre) /\ Len(ret.src) = Capacity(pre) =>
          IsFull(b) /\ ~IsEmpty(b) /\ Length(b) = Capacity(b) /\ b.r = b.w
    /\ Done("Read") /\ IsFull(pre) /\ ret.k = Capacity(pre) =>
          IsEmpty(b) /\ ~IsFull(b) /\ Length(b) = 0 /\ b.r = b.w

\* a full buffer, away from index 0, read empty in one call
C5_Witness ==
    /\ Done("Read")
    /\ IsFull(pre)
    /\ pre.r > 0
    /\ ret.k = Capacity(pre)
    /\ IsEmpty(b)

\* C6: Length() + Free() = Capacity() and 0 <= Length() <= Capacity() after
\* every operation.
C6_OccupancyConservation ==
    /\ Length(b) + Free(b) = Capacity(b)
    /\ 0 <= Length(b)
    /\ Length(b) <= Capacity(b)

\* a Write or Read that left the occupied region wrapped
C6_Witness ==
    /\ Done("Write") \/ Done("Read")
    /\ b.w < b.r
    /\ b.w > 0
    /\ b # pre

\* C7 as stated: a Write that returns ErrTooManyDataToWrite stored nothing.
C7_RejectedWriteUnmodified ==
    Done("Write") /\ ret.err = ErrTooManyDataToWrite =>
        /\ ret.n = 0
        /\ b = pre

\* C7 as amended: a Write that returns ErrTooManyDataToWrite is a short
\* write.  It stored the first Free() bytes of src behind the unread bytes,
\* returned that count (positive, less than len(src)), left readPos alone
\* and filled the buffer.
C7_ShortWriteOnTooManyData ==
    Done("Write") /\ ret.err = ErrTooManyDataToWrite =>
        /\ variant = Legacy
        /\ ret.n = Free(pre)
        /\ ret.n > 0
        /\ ret.n < Len(ret.src)
        /\ b.r = pre.r
        /\ IsFull(b)
        /\ Length(b) = Capacity(b)
        /\ LegacyBytes(b) = LegacyBytes(pre) \o SubSeq(ret.src, 1, Free(pre))

\* a short write that crossed the end of the array behind unread bytes
C7_Witness ==
    /\ Done("Write")
    /\ ret.err = ErrTooManyDataToWrite
    /\ pre.w + ret.n > pre.size
    /\ pre.r > 0
    /\ Length(pre) > 0

\* C8: Read into a zero-length destination returns 0 and no error and
\* leaves the buffer as it was.
C8_ReadZeroLengthDest ==
    Done("Read") /\ ret.k = 0 =>
        /\ ret.n = 0
        /\ ret.err = ErrNil
        /\ b = pre

\* C9: when the sink fails, WriteTo returns the sink's error at once and the
\* bytes the sink took stay removed: with n the returned count, exactly the
\* first n unread bytes are gone and Length() has dropped by n.
C9_DrainToStopsOnSinkError ==
    Done("WriteTo") /\ ret.cerr # ErrNil =>
        LET q == Contents(variant, pre)
        IN  /\ ret.err = ret.cerr
            /\ ret.data = SubSeq(q, 1, ret.n)
            /\ Contents(variant, b) = SubSeq(q, ret.n + 1, Len(q))
            /\ Length(b) = Length(pre) - ret.n

\* C10: ReadFrom never returns io.EOF; any other error of the source is
\* returned as it is.
C10_FillFromSwallowsEOF ==
    Done("ReadFrom") =>
        /\ ret.err # EOF
        /\ ret.cerr = ErrOther => ret.err = ErrOther

\* an index as the caller means it: -k is k bytes before the logical end
Resolve(idx, len) == IF idx < 0 THEN len + idx ELSE idx

\* C11: ByteRange takes negative start and end as offsets from the logical
\* end (-k is Length()-k), returns a copy of the unread bytes [start, end)
\* and does not touch the buffer; it fails with out-of-range only when a
\* resolved index is outside [0, Length()], and with invalid-range when the
\* resolved end precedes the resolved start.
C11_ByteRangeNegativeIndices ==
    Done("ByteRange") =>
        LET q == Bytes(pre)
            s1 == Resolve(ret.k, Len(q))
            e1 == Resolve(ret.k2, Len(q))
        IN  /\ b = pre
            /\ IF s1 \notin 0..Len(q) \/ e1 \notin 0..Len(q)
               THEN ret.err = ErrOutOfRange
               ELSE IF e1 < s1
               THEN ret.err = ErrInvalidSliceIndices
               ELSE ret.err = ErrNil /\ ret.data = SubSeq(q, s1 + 1, e1)

\* C12: ReadUntilFunc with a predicate copies and consumes the bytes up to
\* and including the first match among the first min(len(dest), Length())
\* unread bytes and reports whether it matched; it signals io.EOF only when
\* nothing matched and the unread bytes ran out with room left in dest
\* (Length() < len(dest)), and not when dest has no room left.  Stated for a
\* dest of positive length.
C12_ReadUntilEndOfData ==
    Done("ReadUntilFunc") /\ ret.k > 0 =>
        LET q == Bytes(pre)
            m == Min(ret.k, Len(q))
            at == FirstIndex(SubSeq(q, 1, m), ret.src[1])
            cnt == IF at > 0 THEN at ELSE m
        IN  /\ ret.atDelim = (at > 0)
            /\ ret.n = cnt
            /\ ret.data = SubSeq(q, 1, cnt)
            /\ Bytes(b) = SubSeq(q, cnt + 1, Len(q))
            /\ ret.err \in {ErrNil, EOF}
            /\ ret.err = EOF => (at = 0 /\ Len(q) < ret.k)
            /\ (at = 0 /\ ret.k <= Len(q)) => ret.err = ErrNil

EndsIn(s, d) == Len(s) > 0 /\ s[Len(s)] = d

\* C13: ReadBytes returns a non-nil error exactly when the returned data
\* does not end in delim.  With the delimiter among the unread bytes the data
\* ends in it and the error is nil; without it (the empty buffer included)
\* the data is all the unread bytes, the error is io.EOF and the read
\* position stays.
C13_ReadBytesErrIffNoDelim ==
    Done("ReadBytes") =>
        LET q == Bytes(pre)
            at == FirstIndex(q, ret.k)
        IN  /\ (ret.err # ErrNil) <=> ~EndsIn(ret.data, ret.k)
            /\ at > 0 => (ret.data = SubSeq(q, 1, at) /\ ret.err = ErrNil)
            /\ at = 0 => (ret.data = q /\ ret.err = EOF /\ b = pre)

\* C14 as stated: after Write of C-1 bytes, Consume(C-2) and Write of C-1
\* more bytes, Bytes() equals the C-1 bytes written last.
C14_BytesAreLastWrite ==
    pc = "wrapped" => Bytes(b) = ret.src

\* C14 as amended: after that scenario the buffer is full; Bytes() is the one
\* byte of the first Write that was not consumed followed by the C-1 bytes of
\* the second Write, so its last C-1 bytes are the bytes written last.
C14_WrapKeepsUnconsumedByte ==
    pc = "wrapped" =>
        /\ ret.n = b.size - 1
        /\ ret.err = ErrNil
        /\ IsFull(b)
        /\ Length(b) = Capacity(b)
        /\ Bytes(b) = <<ret.prev[b.size - 1]>> \o ret.src
        /\ SubSeq(Bytes(b), 2, b.size) = ret.src

\* the second Write crossed the end of the array with two different bytes
C14_Witness ==
    /\ pc = "wrapped"
    /\ pre.w + ret.n > pre.size
    /\ pre.w > 0
    /\ ret.n >= 2
    /\ ret.src[1] # ret.src[2]

\* the buffer with every cell outside the occupied region zeroed: what a
\* freshly constructed buffer holds there
Canon(x) ==
    LET occ == {(x.r + i) % x.size : i \in 0..(Length(x) - 1)}
    IN  [x EXCEPT !.buf = [k \in 0..(x.size - 1) |-> IF k \in occ THEN x.buf[k] ELSE 0]]

\* C15: Reset leaves Length() = 0 and IsFull() = false, a second Reset
\* changes nothing, and the reset buffer is a fresh buffer of the same
\* capacity up to the stale bytes of its free cells.  Those stale bytes are
\* never observed: every Write, WriteByte, Read and ReadByte returns the same
\* count, error and bytes as the same call on the buffer with its free cells
\* zeroed, and leaves the same buffer up to free cells, so any sequence of
\* them after Reset matches the same sequence on a fresh buffer.
C15_ResetIsFresh ==
    /\ Done("Reset") =>
          /\ Length(b) = 0
          /\ ~IsFull(b)
          /\ Contents(variant, b) = <<>>
          /\ Reset(b) = b
          /\ Canon(b) = (IF variant = V0 THEN WithSize(b.size) ELSE LegacyNew(b.size))
    /\ Done("Write") =>
          LET c == IF variant = V0 THEN Write(Canon(pre), ret.src)
                   ELSE LegacyWrite(Canon(pre), ret.src)
          IN  c.n = ret.n /\ c.err = ret.err /\ Canon(c.b) = Canon(b)
    /\ Done("WriteByte") =>
          LET c == WriteByte(Canon(pre), ret.k)
          IN  c.err = ret.err /\ Canon(c.b) = Canon(b)
    /\ Done("Read") =>
          LET c == IF variant = V0 THEN Read(Canon(pre), ret.k)
                   ELSE LegacyRead(Canon(pre), ret.k)
          IN  c.n = ret.n /\ c.err = ret.err /\ c.p = ret.data /\ Canon(c.b) = Canon(b)
    /\ Done("ReadByte") =>
          LET c == ReadByte(Canon(pre))
          IN  c.c = ret.k /\ c.err = ret.err /\ Canon(c.b) = Canon(b)

\* Reset of a full buffer whose backing array keeps non-zero stale bytes
C15_Witness ==
    /\ Done("Reset")
    /\ IsFull(pre)
    /\ pre.r > 0
    /\ \E k \in 0..(b.size - 1) : b.buf[k] # 0

\* C16: in every buffer state reached by writes, reads and consumes, and for
\* every byte sequence p, Equal(p) is true exactly when Bytes() is p and
\* HasPrefix(p) is true exactly when p is a prefix of Bytes(); neither call
\* changes the buffer.
C16_EqualHasPrefixMatchBytes ==
    /\ Done("Equal") =>
          /\ ret.good <=> (Bytes(pre) = ret.src)
          /\ b = pre
    /\ Done("HasPrefix") =>
          /\ ret.good <=> (/\ Len(ret.src) <= Len(Bytes(pre))
                            /\ SubSeq(Bytes(pre), 1, Len(ret.src)) = ret.src)
          /\ b = pre

\* HasPrefix answers true for a prefix that crosses the end of the array
C16_Witness ==
    /\ Done("HasPrefix")
    /\ ret.good
    /\ b.w <= b.r
    /\ Len(ret.src) > b.size - b.r
    /\ \E k \in 1..Len(ret.src) : ret.src[k] # 0

\* C17: Consume(n) with 0 <= n <= Length() drops exactly the first n occupied
\* bytes and copies nothing: Length() decreases by n, the remaining bytes are
\* unchanged and in order, the full flag is cleared when n > 0 and Consume(0)
\* changes nothing.  Consume(n) with n > Length() fails with ErrOutOfRange
\* and leaves r, w and the full flag as they were.
C17_ConsumeDropsPrefix ==
    (Done("Consume") /\ ret.k >= 0) =>
        LET n == ret.k
            q == Bytes(pre)
        IN  /\ n <= Length(pre) =>
                  /\ ret.err = ErrNil
                  /\ Length(b) = Length(pre) - n
                  /\ Bytes(b) = SubSeq(q, n + 1, Len(q))
                  /\ b.buf = pre.buf
                  /\ b.w = pre.w
                  /\ n > 0 => ~IsFull(b)
                  /\ n = 0 => b = pre
            /\ n > Length(pre) =>
                  /\ ret.err = ErrOutOfRange
                  /\ b.r = pre.r /\ b.w = pre.w /\ b.isFull = pre.isFull

\* Consume of part of a full buffer moves the read cursor across the end of
\* the array
C17_Witness ==
    /\ Done("Consume")
    /\ IsFull(pre)
    /\ ret.k > 0
    /\ ret.k < Length(pre)
    /\ pre.r + ret.k > pre.size
    /\ ret.err = ErrNil

\* C18: New with a capacity <= 0 fails, so no constructed buffer has a
\* non-positive capacity; a constructed buffer has a positive capacity and
\* is empty with r = w = 0 and isFull = false.
C18_NewRejectsNonPositiveCapacity ==
    /\ (ret.op = "New" /\ ret.k <= 0) => ret.err # ErrNil
    /\ pc \in {"idle", "done"} =>
          /\ Capacity(b) > 0
          /\ Done("New") => (b.r = 0 /\ b.w = 0 /\ ~b.isFull /\ Length(b) = 0)

\* C19: after every operation (ReadFrom and WriteTo with sources and sinks
\* that return partial counts and errors included), isFull implies r = w,
\* and a full buffer holds Capacity() unread bytes.
C19_FullImpliesCursorsMeet ==
    (pc \in {"idle", "done"} /\ b.isFull) =>
        /\ b.r = b.w
        /\ Length(b) = Capacity(b)

\* C20: after every operation that returns, whatever its arguments (every
\* integer n of Consume, negative ones included), 0 <= r < Capacity() and
\* 0 <= w < Capacity().
C20_CursorsInRange ==
    pc \in {"idle", "done"} =>
        /\ 0 <= b.r /\ b.r < Capacity(b)
        /\ 0 <= b.w /\ b.w < Capacity(b)

\* both goroutines are between calls
Quiescent == th.wpc = "idle" /\ th.rpc = "idle"

\* C21: without a lock the buffer is unsafe for one producer and one
\* consumer.  As long as no WriteByte call has overlapped a ReadByte call the
\* cursor state between calls is consistent: both cursors index the array,
\* isFull implies r = w, and Length() is the number of bytes accepted and not
\* yet handed out.  An inconsistent state between calls therefore comes only
\* from an overlap, and C21_Witness is such a state.
C21_SequentialCallsStayConsistent ==
    (Quiescent /\ ~th.raced) =>
        /\ CursorsIndexArray(b)
        /\ b.isFull => b.r = b.w
        /\ Length(b) = th.held
        /\ IsEmpty(b) <=> th.held = 0

\* after overlapping calls both goroutines have returned and the buffer is
\* marked full while the cursors differ
C21_Witness ==
    /\ Quiescent
    /\ th.raced
    /\ b.isFull
    /\ b.r # b.w

====
